---- MODULE Spec2Model ----
(***************************************************************************)
(* Model of the scout osquery extension (src/scout-query): the scout_exec  *)
(* table (ScoutQuickExecGenerate), the script resolver (getScript), the    *)
(* on-disk cache (cache.go) and the executor (executeScript).              *)
(*                                                                         *)
(* Every table call is one process of Procs; osquery may dispatch calls    *)
(* concurrently, so the steps of getScript interleave wherever the code    *)
(* does not hold cacheMutex.  One script URL, hence one cache key, is      *)
(* modelled: all calls are for the same script.                            *)
(*                                                                         *)
(* Byte strings, digests and signatures are abstract strings:              *)
(*   Sha256Hex(c) = "sha256:" \o c   is injective, as SHA-256 is taken to  *)
(*   be; Sign(h) = "sig:" \o h is the RSA signature of digest h under the  *)
(*   server's private key.  Only contents of Signed were ever signed, so   *)
(*   the signatures that exist anywhere are Signatures.                    *)
(***************************************************************************)
EXTENDS Integers, Sequences, FiniteSets, TLC

(***************************************************************************)
(* Bounds of the model.                                                    *)
(***************************************************************************)
MaxTime == 1
MaxFaults == 2
MaxListFaults == 1
\* chunks of output an operating-system pipe buffers before a write blocks
PipeCap == 1

\* the concurrent scout_exec calls
Procs == {1, 2}

(***************************************************************************)
(* Values.                                                                 *)
(***************************************************************************)
NoFile == "<absent>"
NoData == "<nil>"
Nil == ""

Signed == {"v1", "v2"}
Contents == Signed \cup {"evil"}

Sha256Hex(c) == "sha256:" \o c
Sign(h) == "sig:" \o h
JunkSignature == "sig:junk"
Signatures == {Sign(Sha256Hex(c)) : c \in Signed} \cup {JunkSignature}
Hashes == {Sha256Hex(c) : c \in Contents}

HostedName == "hello.sh"

\* rsa.VerifyPKCS1v15(rsaPub, crypto.SHA256, hashed, signature) == nil
VerifyPKCS1v15(hashed, signature) == signature = Sign(hashed)

\* pem.Decode / x509.ParsePKIXPublicKey / pub.(*rsa.PublicKey): "" when the
\* configured key is an RSA public key, else the error of the step that fails
PublicKeys == {"rsa", "badpem", "badder", "ecdsa"}
ParsePublicKey(publicKeyStr) ==
    CASE publicKeyStr = "badpem" -> "failed to parse public key PEM"
      [] publicKeyStr = "badder" -> "failed to parse public key"
      [] publicKeyStr = "ecdsa"  -> "public key is not rsa"
      [] OTHER                   -> Nil

\* strings.ToLower on the constraint values the model uses
ToLower(s) ==
    CASE s = "TRUE"  -> "true"
      [] s = "FALSE" -> "false"
      [] OTHER       -> s

\* variant: whatever is not "0" or "false" counts as true
processBoolConstraintLenient(val) == ToLower(val) \notin {"0", "false"}

processBoolConstraint(val) ==
    CASE ToLower(val) \in {"0", "false"} -> FALSE
      [] ToLower(val) \in {"1", "true"}  -> TRUE
      [] OTHER                           -> FALSE

(***************************************************************************)
(* The cache directory: the three artifacts of the one cache key.          *)
(***************************************************************************)
CacheMeta(hash, name, time) ==
    [state |-> "ok", ScriptHash |-> hash, ScriptName |-> name, CacheTime |-> time]
\* CacheMeta{}: the zero value loadScriptFromCache returns with an error
ZeroMeta == [state |-> "zero", ScriptHash |-> "", ScriptName |-> "", CacheTime |-> 0]
NoMeta == [ZeroMeta EXCEPT !.state = "absent"]
MalformedMeta == [ZeroMeta EXCEPT !.state = "malformed"]

EmptyCache == [script |-> NoFile, meta |-> NoMeta, sig |-> NoFile]

\* loadScriptFromCache: <<data, metadata, err>>
loadScriptFromCache(files) ==
    IF files.script = NoFile
    THEN <<NoData, ZeroMeta, "cache file does not exist">>
    ELSE IF files.meta.state = "absent"
    THEN <<NoData, ZeroMeta, "open meta: no such file">>
    ELSE IF files.meta.state = "malformed"
    THEN <<NoData, ZeroMeta, "invalid character">>
    ELSE <<files.script, files.meta, Nil>>

\* loadSignatureFromCache behind the os.Stat of getScript: <<signature, err>>
loadSignatureFromCache(files) ==
    IF files.sig = NoFile THEN <<NoData, "no such file">> ELSE <<files.sig, Nil>>

\* variant: the signature file is left behind
removeScriptKeepSignature(files) == [EmptyCache EXCEPT !.sig = files.sig]

\* cache.go 181-186: the three files are deleted, errors ignored
removeScriptFromCache(files) == EmptyCache

(***************************************************************************)
(* State.                                                                  *)
(***************************************************************************)
VARIABLES
    files,        \* the cache directory entry of the key
    cacheMutex,   \* 0, or the process holding cacheMutex
    serverScript, \* the content the server currently publishes for HostedName
    now,          \* wall clock
    diskFaults,   \* disk faults the environment may still cause:
                  \* external writes to the cache directory, failed I/O
    scoutConfig,  \* [PublicKey, CacheWindow], fixed at start
    GOOS,         \* runtime.GOOS
    pc,           \* per process: position in ScoutQuickExecGenerate/getScript
    call          \* per process: the locals of the call

vars == <<files, cacheMutex, serverScript, now, diskFaults, scoutConfig, GOOS, pc, call>>

NoScript == [Name |-> "", Contents |-> NoData, Hash |-> "", Cached |-> FALSE]
\* ConsoleOut is the child's stdout as strings.Split(.., "\n") cuts it;
\* ErrorOut is the sequence of the pieces appended to it
NoResult == [ScriptName |-> "", ConsoleOut |-> <<"">>, ErrorOut |-> <<>>,
             ScriptHash |-> "", FromCache |-> "", Status |-> "pending"]

\* The tasks of one startCommandExecution (main.go 658-724): the child, the
\* two pipes, the two reader goroutines and the calling goroutine.
Streams == {"out", "err"}
NoCmd ==
    [ main    |-> "none",     \* the caller: "wait" in cmd.Wait, "out"/"err" at the
                              \* receive from stdoutChan/stderrChan, "returned"
      child   |-> "none",     \* "running", "exited" or "killed"
      code    |-> "",         \* what the child does after its last write
      ctx     |-> "live",     \* or "expired": the deadline of the context
      todo    |-> [s \in Streams |-> <<>>],   \* chunks the child has yet to write
      written |-> [s \in Streams |-> <<>>],   \* chunks the child has written
      pipe    |-> [s \in Streams |-> <<>>],   \* chunks buffered in each pipe
      closed  |-> FALSE,      \* cmd.Wait has closed the read ends
      reader  |-> [s \in Streams |-> "none"], \* "reading", "sending", "finished"
      read    |-> [s \in Streams |-> <<>>] ]  \* what io.ReadAll has collected

IdleCall ==
    [ reqName     |-> "",        \* scriptNames[0] as the query gave it
      useCache    |-> "false",   \* the raw from_cache constraint
      cacheBool   |-> FALSE,
      scriptName  |-> "",
      scriptData  |-> NoData,
      scriptHash  |-> "",
      scriptMeta  |-> ZeroMeta,
      cacheErr    |-> Nil,
      currentHash |-> "",
      hashErr     |-> Nil,
      signature   |-> NoData,
      script      |-> NoScript,
      err         |-> Nil,
      result      |-> NoResult,
      rows        |-> <<>>,
      \* history of the call, read by the properties only
      checkedAt   |-> -1,        \* clock value the freshness gate read
      verified    |-> NoData,    \* bytes rsa.VerifyPKCS1v15 accepted in this call
      gets        |-> 0,         \* GETs of the payload issued
      wrote       |-> FALSE,     \* this call removed or saved cache artifacts
      spawned     |-> FALSE,     \* a child process was started
      orphans     |-> FALSE,     \* processes of the child's tree survive the call
      argsList    |-> <<>>,      \* the args constraints handed to executeScript
      exit        |-> "",        \* how the child that was started ended
      argv        |-> <<>>,      \* the child's arguments after the script path
      tmp         |-> "none",    \* the temporary script file of executeScript
      cmd         |-> NoCmd ]    \* the tasks of startCommandExecution

Set(p, c) == call' = [call EXCEPT ![p] = c]

\* Once a gate of the cache path has refused the entry, what the path loaded
\* is dead: the code reads none of it again (the fetch path assigns scriptData
\* and scriptHash before it reads them).  scriptName and cacheErr live on.
Refuse(c) ==
    [c EXCEPT !.scriptData = NoData, !.scriptHash = "", !.scriptMeta = ZeroMeta,
              !.currentHash = "", !.hashErr = Nil,
              !.signature = NoData, !.checkedAt = -1]

\* All locals of getScript are gone once it has returned.
Leave(c) == [Refuse(c) EXCEPT !.cacheErr = Nil]
Goto(p, l) == pc' = [pc EXCEPT ![p] = l]

CacheWindows == {0, 1}
HostsMain == {"linux"}

\* The state after main() has loaded the configuration: an empty cache
\* directory, no call in progress.
StartOn(keys, budget, hosts) ==
    /\ files = EmptyCache
    /\ cacheMutex = 0
    /\ serverScript = "v1"
    /\ now = 0
    /\ diskFaults = budget
    /\ scoutConfig \in [PublicKey : keys, CacheWindow : CacheWindows]
    /\ GOOS \in hosts
    /\ pc = [p \in Procs |-> "idle"]
    /\ call = [p \in Procs |-> IdleCall]

Start(keys, budget) == StartOn(keys, budget, HostsMain)


(***************************************************************************)
(* ScoutQuickExecGenerate, up to the call of getScript (main.go 130-151).  *)
(* scriptNames and cacheList are processContextConstraints' results for    *)
(* the script_name and from_cache columns.                                 *)
(***************************************************************************)
ScoutQuickExecGenerate(p, scriptNames, cacheList) ==
    /\ pc[p] = "idle"
    /\ UNCHANGED <<files, cacheMutex, serverScript, now, diskFaults, scoutConfig, GOOS>>
    /\ IF Len(scriptNames) = 0
       THEN /\ Set(p, [IdleCall EXCEPT !.err = "no script specified in the query"])
            /\ Goto(p, "done")
       ELSE IF Len(scriptNames) > 1
       THEN /\ Set(p, [IdleCall EXCEPT !.err = "only one script can be executed at a time"])
            /\ Goto(p, "done")
       ELSE LET useCache == IF Len(cacheList) > 0 THEN cacheList[1] ELSE "false"
                cacheBool == processBoolConstraint(useCache)
            IN /\ Set(p, [IdleCall EXCEPT !.reqName = scriptNames[1],
                                          !.scriptName = scriptNames[1],
                                          !.useCache = useCache,
                                          !.cacheBool = cacheBool])
               \* getScript line 488: if useCache
               /\ Goto(p, IF cacheBool THEN "load" ELSE "fetch")

(***************************************************************************)
(* getScript, the cache path (main.go 488-576).                            *)
(***************************************************************************)
\* lines 491-503: Lock; loadScriptFromCache; Unlock
GetScriptLoad(p) ==
    /\ pc[p] = "load"
    /\ cacheMutex = 0
    /\ LET r == loadScriptFromCache(files)
       IN /\ Set(p, [call[p] EXCEPT !.scriptData = r[1],
                                    !.scriptMeta = r[2],
                                    !.cacheErr = r[3],
                                    !.scriptHash = r[2].ScriptHash,
                                    !.scriptName = r[2].ScriptName])
          /\ Goto(p, IF r[3] = Nil THEN "fresh" ELSE "remove")
    /\ UNCHANGED <<files, cacheMutex, serverScript, now, diskFaults, scoutConfig, GOOS>>

\* variant: the age of the entry is not looked at
CacheFreshAlways(clock, cacheTimestamp, cacheWindow) == TRUE

\* line 507: time.Since(cacheTimestamp) < cacheWindow
CacheFresh(clock, cacheTimestamp, cacheWindow) ==
    clock - cacheTimestamp < cacheWindow

GetScriptFreshness(p) ==
    /\ pc[p] = "fresh"
    /\ IF CacheFresh(now, call[p].scriptMeta.CacheTime, scoutConfig.CacheWindow)
       THEN Set(p, [call[p] EXCEPT !.checkedAt = now]) /\ Goto(p, "hash")
       ELSE Set(p, Refuse(call[p])) /\ Goto(p, "remove")
    /\ UNCHANGED <<files, cacheMutex, serverScript, now, diskFaults, scoutConfig, GOOS>>

\* What GET {server_url}/hash/{name} answers when nothing goes wrong: the
\* digest of the published script, and a non-200 status for any other name.
HonestHash(name) ==
    IF name = HostedName
    THEN [hash |-> Sha256Hex(serverScript), err |-> Nil]
    ELSE [hash |-> "", err |-> "failed to fetch script hash: received status code 404"]

\* Every answer getScriptHashFromServer can produce (cache.go 201-226): the
\* honest one, any other digest, a transport error or a non-200 status
HashAnswers(name) ==
    {HonestHash(name)} \cup [hash : Hashes, err : {Nil}]
      \cup {[hash |-> "", err |-> e] :
             e \in {"failed to fetch script hash",
                    "failed to fetch script hash: received status code 404"}}

\* variant: the comparison of line 510 negated
HashCurrentInverted(hashErr, currentHash, scriptHash) ==
    hashErr = Nil /\ currentHash # scriptHash

\* variant: a failed hash request counts as a confirmation
HashCurrentLenient(hashErr, currentHash, scriptHash) ==
    hashErr # Nil \/ currentHash = scriptHash

\* line 510: err == nil && currentHash == scriptHash
HashCurrent(hashErr, currentHash, scriptHash) ==
    hashErr = Nil /\ currentHash = scriptHash

GetScriptRemoteHash(p) ==
    /\ pc[p] = "hash"
    /\ \E a \in HashAnswers(call[p].scriptName) :
         /\ IF HashCurrent(a.err, a.hash, call[p].scriptHash)
            THEN /\ Set(p, [call[p] EXCEPT !.currentHash = a.hash, !.hashErr = a.err])
                 /\ Goto(p, "sig")
            ELSE /\ Set(p, [Refuse(call[p]) EXCEPT !.currentHash = a.hash,
                                                   !.hashErr = a.err])
                 /\ Goto(p, "remove")
    /\ UNCHANGED <<files, cacheMutex, serverScript, now, diskFaults, scoutConfig, GOOS>>

\* lines 512-515: os.Stat and loadSignatureFromCache, outside the mutex
GetScriptLoadSignature(p) ==
    /\ pc[p] = "sig"
    /\ LET s == loadSignatureFromCache(files)
       IN IF s[2] # Nil
          THEN Set(p, Refuse(call[p])) /\ Goto(p, "remove")
          ELSE Set(p, [call[p] EXCEPT !.signature = s[1]]) /\ Goto(p, "verify")
    /\ UNCHANGED <<files, cacheMutex, serverScript, now, diskFaults, scoutConfig, GOOS>>

\* variant: the stored hash is passed on instead of the recomputed one
CachedHashStored(scriptData, metaHash) == metaHash

\* line 527: the hash of the returned Script is recomputed from the payload
CachedHash(scriptData, metaHash) == Sha256Hex(scriptData)

\* variant: the result of the verification is not looked at
CacheVerifiedAlways(hashed, signature) == TRUE

\* line 530-531: the cached bytes are accepted only if the signature verifies
CacheVerified(hashed, signature) == VerifyPKCS1v15(hashed, signature)

\* lines 516-558: the key parse, the recomputed digest, rsa.VerifyPKCS1v15
\* and, when it succeeds, the return of the cached script (lines 532-540)
GetScriptVerifyCached(p) ==
    /\ pc[p] = "verify"
    /\ LET keyErr == ParsePublicKey(scoutConfig.PublicKey)
           scriptHash == CachedHash(call[p].scriptData, call[p].scriptHash)
           hashed == Sha256Hex(call[p].scriptData)
       IN IF keyErr # Nil \/ ~CacheVerified(hashed, call[p].signature)
          THEN /\ Set(p, Refuse(call[p]))
               /\ Goto(p, "remove")
          ELSE /\ Set(p, [Leave(call[p]) EXCEPT
                            !.verified =
                               IF VerifyPKCS1v15(hashed, call[p].signature)
                               THEN call[p].scriptData ELSE NoData,
                            !.script = [Name |-> call[p].scriptName,
                                        Contents |-> call[p].scriptData,
                                        Hash |-> scriptHash,
                                        Cached |-> TRUE]])
               /\ Goto(p, "got")
    /\ UNCHANGED <<files, cacheMutex, serverScript, now, diskFaults, scoutConfig, GOOS>>

\* lines 569-575: the inner cacheValid is still false here, so the entry is
\* always removed: Lock; removeScriptFromCache; Unlock
GetScriptRemove(p) ==
    /\ pc[p] = "remove"
    /\ cacheMutex = 0
    /\ files' = removeScriptFromCache(files)
    /\ Set(p, Leave([call[p] EXCEPT !.wrote = TRUE]))
    /\ Goto(p, "fetch")
    /\ UNCHANGED <<cacheMutex, serverScript, now, diskFaults, scoutConfig, GOOS>>

(***************************************************************************)
(* getScript, the fetch path (main.go 578-654).                            *)
(***************************************************************************)
\* The X-Signature header: absent, not hexadecimal, or the hex of a signature
NoHeader == [enc |-> "none", sig |-> NoData]
BadHexHeader == [enc |-> "nothex", sig |-> NoData]
HexEncodeToString(sig) == [enc |-> "hex", sig |-> sig]
Headers == {NoHeader, BadHexHeader} \cup {HexEncodeToString(s) : s \in Signatures}

\* hex.DecodeString: <<bytes, err>>
HexDecodeString(h) ==
    IF h.enc = "hex" THEN <<h.sig, Nil>> ELSE <<NoData, "encoding/hex: invalid byte">>

\* What GET {server_url}/{os}/{name} answers when nothing goes wrong
HonestResponse ==
    [status |-> "200", body |-> serverScript,
     header |-> HexEncodeToString(Sign(Sha256Hex(serverScript)))]

\* Every answer the GET can produce: a transport error, a non-200 status, a
\* body that cannot be read, or any body with any X-Signature header
Responses ==
    {HonestResponse} \cup [status : {"200"}, body : Contents, header : Headers]
      \cup [status : {"neterr", "404", "readerr"}, body : {NoData}, header : {NoHeader}]

\* variant: the result of the verification is not looked at
FetchVerifiedAlways(hashed, signature) == TRUE

\* line 629-632: the fetched bytes are accepted only if the signature verifies
FetchVerified(hashed, signature) == VerifyPKCS1v15(hashed, signature)

\* lines 581-640, given the answer r: <<err, scriptData, signature, verified>>
\* (on an error getScript returns Script{} and its locals are gone)
FetchOutcome(r) ==
    LET dec == HexDecodeString(r.header)
        keyErr == ParsePublicKey(scoutConfig.PublicKey)
    IN IF r.status = "neterr" THEN <<"failed to fetch script", NoData, NoData, NoData>>
       ELSE IF r.status = "404"
       THEN <<"failed to fetch script: received status code", NoData, NoData, NoData>>
       ELSE IF r.status = "readerr"
       THEN <<"failed to read script data", NoData, NoData, NoData>>
       ELSE IF r.header.enc = "none"
       THEN <<"no signature in response header", NoData, NoData, NoData>>
       ELSE IF dec[2] # Nil
       THEN <<"failed to decode signature", NoData, NoData, NoData>>
       ELSE IF keyErr # Nil
       THEN <<keyErr, NoData, NoData, NoData>>
       ELSE IF ~FetchVerified(Sha256Hex(r.body), dec[1])
       THEN <<"Script signature verification failed", NoData, NoData, NoData>>
       ELSE <<Nil, r.body, dec[1],
              IF VerifyPKCS1v15(Sha256Hex(r.body), dec[1]) THEN r.body ELSE NoData>>

GetScriptFetch(p) ==
    /\ pc[p] = "fetch"
    /\ \E r \in Responses :
         /\ LET o == FetchOutcome(r)
                c == [call[p] EXCEPT !.gets = 1,
                                     !.scriptData = o[2],
                                     !.signature = o[3],
                                     !.verified = o[4]]
            IN IF o[1] # Nil
               THEN \* ScoutQuickExecGenerate 152-154: failed to get script
                    /\ Set(p, [c EXCEPT !.err = o[1]])
                    /\ Goto(p, "done")
               ELSE /\ Set(p, [c EXCEPT !.scriptHash = Sha256Hex(o[2]),
                                        !.script = [Name |-> call[p].scriptName,
                                                    Contents |-> o[2],
                                                    Hash |-> Sha256Hex(o[2]),
                                                    Cached |-> FALSE]])
                    /\ Goto(p, "save1")
    /\ UNCHANGED <<files, cacheMutex, serverScript, now, diskFaults, scoutConfig, GOOS>>

(***************************************************************************)
(* saveScriptToCache under cacheMutex (main.go 643-650, cache.go 116-178): *)
(* payload, metadata, signature, each removed if present and then written. *)
(* Deleting an existing file succeeds; os.WriteFile can fail (a full disk), *)
(* leaving no file: the save stops there, the mutex is released and        *)
(* getScript returns the error.                                            *)
(***************************************************************************)
IOOutcomes == {"ok", "write fails"}

\* the file after os.Remove (when present) and os.WriteFile of data
WriteFile(absent, data, io) == IF io = "ok" THEN data ELSE absent

SaveStep(p, from, to, field, absent, data) ==
    /\ pc[p] = from
    /\ cacheMutex = IF from = "save1" THEN 0 ELSE p
    /\ \E io \in IOOutcomes :
         /\ io # "ok" => diskFaults > 0
         /\ diskFaults' = IF io = "ok" THEN diskFaults ELSE diskFaults - 1
         /\ files' = [files EXCEPT ![field] = WriteFile(absent, data, io)]
         /\ IF io # "ok"
            THEN /\ cacheMutex' = 0
                 /\ Set(p, Leave([call[p] EXCEPT
                                    !.wrote = TRUE, !.script = NoScript,
                                    !.err = "failed to save script to cache"]))
                 /\ Goto(p, "done")
            ELSE /\ cacheMutex' = IF to = "got" THEN 0 ELSE p
                 /\ Set(p, IF to = "got" THEN Leave([call[p] EXCEPT !.wrote = TRUE])
                                        ELSE [call[p] EXCEPT !.wrote = TRUE])
                 /\ Goto(p, to)
    /\ UNCHANGED <<serverScript, now, scoutConfig, GOOS>>

\* variant: a payload file that exists is left as it is
SavePayloadKept(p) ==
    SaveStep(p, "save1", "save2", "script", NoFile,
             IF files.script = NoFile THEN call[p].script.Contents ELSE files.script)

\* cache.go 129-139
SavePayload(p) ==
    SaveStep(p, "save1", "save2", "script", NoFile, call[p].script.Contents)

\* variant: the metadata hash is not the one of the payload
SavedMetaOfName(script, clock) == CacheMeta(Sha256Hex(script.Name), script.Name, clock)

\* cache.go 141-162: metadata.CacheTime = time.Now()
SavedMeta(script, clock) == CacheMeta(script.Hash, script.Name, clock)

SaveMeta(p) ==
    SaveStep(p, "save2", "save3", "meta", NoMeta, SavedMeta(call[p].script, now))

\* variant: a signature file that exists is left as it is
SaveSignatureKept(p) ==
    SaveStep(p, "save3", "got", "sig", NoFile,
             IF files.sig = NoFile THEN call[p].signature ELSE files.sig)

\* cache.go 164-177
SaveSignature(p) ==
    SaveStep(p, "save3", "got", "sig", NoFile, call[p].signature)

(***************************************************************************)
(* The row projection of ScoutQuickExecGenerate (main.go 177-245).         *)
(* Output lines are strings; what encoding/json makes of each is tabled.   *)
(***************************************************************************)
LineA == "{\"a\":\"1\",\"b\":\"2\"}"
LineB == "{\"a\":\"3\",\"b\":\"4\"}"
LineNum == "{\"a\":1}"

\* variant: no line counts as blank
IsBlankNever(line) == FALSE

\* strings.TrimSpace(line) == ""
IsBlank(line) == line \in {"", " "}

\* json.Unmarshal([]byte(line), &map[string]interface{}) == nil, and the keys
UnmarshalObject(line) ==
    CASE line \in {LineA, LineB} -> [ok |-> TRUE, keys |-> {"a", "b"}]
      [] line = LineNum -> [ok |-> TRUE, keys |-> {"a"}]
      [] OTHER -> [ok |-> FALSE, keys |-> {}]

\* json.Unmarshal([]byte(line), &map[string]string): a number is no string
UnmarshalStrings(line) ==
    CASE line = LineA -> [ok |-> TRUE, fields |-> [a |-> "1", b |-> "2"]]
      [] line = LineB -> [ok |-> TRUE, fields |-> [a |-> "3", b |-> "4"]]
      [] OTHER -> [ok |-> FALSE, fields |-> [a |-> ""]]

\* the orders in which `for key := range firstLineData` can enumerate keys
RECURSIVE Orders(_)
Orders(keys) ==
    IF keys = {} THEN {<<>>}
    ELSE UNION {{<<k>> \o o : o \in Orders(keys \ {k})} : k \in keys}

RECURSIVE Join(_)
Join(columns) ==
    IF Len(columns) = 0 THEN ""
    ELSE IF Len(columns) = 1 THEN columns[1]
    ELSE columns[1] \o "," \o Join(Tail(columns))

\* lines 207-213 and 230-241: the from_cache of a row
RowFromCache(useCache, result) == useCache

JsonRow(result, useCache, columns, line) ==
    UnmarshalStrings(line).fields @@
      [script_name |-> result.ScriptName,
       from_cache  |-> RowFromCache(useCache, result),
       status      |-> result.Status,
       columns     |-> Join(columns)]

TextRow(result, useCache, line) ==
    [script_name |-> result.ScriptName,
     console_out |-> line,
     error_out   |-> result.ErrorOut,
     script_hash |-> result.ScriptHash,
     from_cache  |-> RowFromCache(useCache, result),
     status      |-> result.Status,
     columns     |-> "console_out"]

\* the rows, given the order in which the first line's keys were enumerated
Rows(result, useCache, columns) ==
    LET consoleLines == result.ConsoleOut
        KeepJson(line) == ~IsBlank(line) /\ UnmarshalStrings(line).ok
        KeepText(line) == ~IsBlank(line)
        json == SelectSeq(consoleLines, KeepJson)
        text == SelectSeq(consoleLines, KeepText)
    IN IF UnmarshalObject(consoleLines[1]).ok
       THEN [i \in 1..Len(json) |-> JsonRow(result, useCache, columns, json[i])]
       ELSE [i \in 1..Len(text) |-> TextRow(result, useCache, text[i])]

(***************************************************************************)
(* parseArguments (main.go 746-788).  An argument string is the sequence   *)
(* of its characters; an argument vector is a sequence of such strings.    *)
(***************************************************************************)
Quote == "\""
Backslash == "\\"

\* strings.Join(argsList, " ")
RECURSIVE JoinArgs(_)
JoinArgs(argsList) ==
    IF Len(argsList) = 0 THEN <<>>
    ELSE IF Len(argsList) = 1 THEN argsList[1]
    ELSE argsList[1] \o <<" ">> \o JoinArgs(Tail(argsList))

\* json.Unmarshal([]byte(args), &array) for array []string, character by
\* character: white space, '[', strings with the escapes \" and \\ separated
\* by ',', ']', white space.  phase is where the decoder stands.
RECURSIVE DecodeStringArray(_, _, _, _, _)
DecodeStringArray(args, i, phase, current, array) ==
    LET Fail == [ok |-> FALSE, array |-> <<>>]
        c == args[i]
    IN IF i > Len(args) THEN (IF phase = "end" THEN [ok |-> TRUE, array |-> array] ELSE Fail)
       ELSE CASE phase = "begin" ->
                   IF c = " " THEN DecodeStringArray(args, i + 1, "begin", current, array)
                   ELSE IF c = "[" THEN DecodeStringArray(args, i + 1, "first", current, array)
                   ELSE Fail
              [] phase \in {"first", "value"} ->
                   IF c = " " THEN DecodeStringArray(args, i + 1, phase, current, array)
                   ELSE IF c = Quote THEN DecodeStringArray(args, i + 1, "string", <<>>, array)
                   ELSE IF c = "]" /\ phase = "first"
                   THEN DecodeStringArray(args, i + 1, "end", current, array)
                   ELSE Fail
              [] phase = "string" ->
                   IF c = Quote
                   THEN DecodeStringArray(args, i + 1, "after", <<>>, Append(array, current))
                   ELSE IF c = Backslash
                   THEN DecodeStringArray(args, i + 1, "escape", current, array)
                   ELSE DecodeStringArray(args, i + 1, "string", Append(current, c), array)
              [] phase = "escape" ->
                   IF c \in {Quote, Backslash}
                   THEN DecodeStringArray(args, i + 1, "string", Append(current, c), array)
                   ELSE Fail
              [] phase = "after" ->
                   IF c = " " THEN DecodeStringArray(args, i + 1, "after", current, array)
                   ELSE IF c = "," THEN DecodeStringArray(args, i + 1, "value", current, array)
                   ELSE IF c = "]" THEN DecodeStringArray(args, i + 1, "end", current, array)
                   ELSE Fail
              [] OTHER ->
                   IF c = " " THEN DecodeStringArray(args, i + 1, "end", current, array)
                   ELSE Fail

\* variant: the argument string is never taken as a JSON array
UnmarshalStringArrayNever(args) == [ok |-> FALSE, array |-> <<>>]

\* lines 748-749: [ok, array]
UnmarshalStringArray(args) == DecodeStringArray(args, 1, "begin", <<>>, <<>>)

\* lines 755-787: the loop over the characters of args, from character i on
\* (the characters of the model have no tab among them)
RECURSIVE SplitArguments(_, _, _, _, _, _)
SplitArguments(args, i, result, currentArg, inQuotes, quoteChar) ==
    IF i > Len(args) THEN result
    ELSE LET c == args[i]
             s == [result |-> result, currentArg |-> currentArg,
                   inQuotes |-> inQuotes, quoteChar |-> quoteChar]
             t == CASE c = " " ->
                         IF inQuotes THEN [s EXCEPT !.currentArg = Append(currentArg, c)]
                         ELSE IF Len(currentArg) > 0
                         THEN [s EXCEPT !.result = Append(result, currentArg),
                                        !.currentArg = <<>>]
                         ELSE s
                    [] c \in {Quote, "'"} ->
                         IF inQuotes /\ c = quoteChar THEN [s EXCEPT !.inQuotes = FALSE]
                         ELSE IF ~inQuotes THEN [s EXCEPT !.inQuotes = TRUE, !.quoteChar = c]
                         ELSE [s EXCEPT !.currentArg = Append(currentArg, c)]
                    [] OTHER -> [s EXCEPT !.currentArg = Append(currentArg, c)]
             \* lines 782-785: the last argument is appended at the last character
             last == IF i = Len(args) /\ Len(t.currentArg) > 0
                     THEN Append(t.result, t.currentArg) ELSE t.result
         IN SplitArguments(args, i + 1, last, t.currentArg, t.inQuotes, t.quoteChar)

parseArguments(args) ==
    LET json == UnmarshalStringArray(args)
    IN IF json.ok THEN json.array ELSE SplitArguments(args, 1, <<>>, <<>>, FALSE, "")

(***************************************************************************)
(* executeScript (main.go 325-464) and startCommandExecution (658-724).    *)
(* A run is what the child does: how it ends and what it wrote.            *)
(*   exit: "zero" | "nonzero" | "killed" (the deadline expired and the     *)
(*         context killed it) | "late" (it exited zero, the deadline       *)
(*         expiring before ctx.Err() was read) | "nostart" (cmd.Start      *)
(*         failed)                                                         *)
(*   tree: "alone" | "descendants" (the child has spawned processes of its *)
(*         own that do not exit by themselves)                             *)
(***************************************************************************)
\* strings.HasSuffix(strings.ToLower(name), ext) for the names of the model
LowerExt(name) ==
    CASE name \in {"hello.sh", "HELLO.SH"} -> ".sh"
      [] name = "other.py" -> ".py"
      [] name = "job.ps1" -> ".ps1"
      [] name = "job.bat" -> ".bat"
      [] name = "job.vbs" -> ".vbs"
      [] OTHER -> ""

isPowerShellScript(name) == LowerExt(name) \in {".ps1", ".psm1", ".psd1"}
isBatchScript(name) == LowerExt(name) \in {".bat", ".cmd"}
isVBScript(name) == LowerExt(name) \in {".vbs", ".vbscript"}
isPythonScript(name) == LowerExt(name) \in {".py", ".pyc"}
\* variant: every name counts as a shell script
isShellScriptAny(name) == TRUE

isShellScript(name) == LowerExt(name) = ".sh"

\* lines 326-332
NewExecResult(script) ==
    [ScriptName |-> script.Name, ConsoleOut |-> <<"">>, ErrorOut |-> <<>>,
     ScriptHash |-> script.Hash, FromCache |-> "", Status |-> "running"]

\* startCommandExecution as one step: <<result, err, spawned>>.  run.stdout
\* and run.stderr are the child's output as the two readers captured it
startCommandExecution(execResult, run) ==
    CASE run.exit = "nostart" ->
           <<[execResult EXCEPT !.ErrorOut = <<"Failed to start command">>,
                                !.Status = "failed"], "exec: not started", FALSE>>
      [] run.exit \in {"killed", "late"} ->
           <<[execResult EXCEPT !.ErrorOut = <<"Script execution timed out">>,
                                !.Status = "timeout"],
             IF run.exit = "killed" THEN "signal: killed" ELSE Nil, TRUE>>
      [] run.exit = "nonzero" ->
           <<[execResult EXCEPT !.ConsoleOut = run.stdout,
                                !.ErrorOut = <<run.stderr, "Script execution failed">>,
                                !.Status = "failed"], "exit status 1", TRUE>>
      [] OTHER ->
           <<[execResult EXCEPT !.ConsoleOut = run.stdout,
                                !.ErrorOut = <<run.stderr>>,
                                !.Status = "completed"], Nil, TRUE>>

\* PowerShell.execute (powershell.go 22-37) and main.go 401-410: cmd.Run
\* without a context, so only a child that ends by itself returns
psExecute(execResult, run) ==
    IF run.exit = "zero"
    THEN <<[execResult EXCEPT !.ConsoleOut = run.stdout,
                              !.ErrorOut = <<run.stderr>>,
                              !.Status = "completed"], Nil, TRUE>>
    ELSE <<[execResult EXCEPT !.ErrorOut = <<run.stderr>>,
                              !.Status = "failed"],
           IF run.exit = "nostart" THEN "exec: not started" ELSE "exit status 1",
           run.exit # "nostart">>

Unsupported(execResult, msg) ==
    <<[execResult EXCEPT !.ErrorOut = <<msg>>, !.Status = "failed"], Nil, FALSE>>

\* executeScript from line 396 on: <<result, err, spawned>>
executeScript(goos, script, run) ==
    LET execResult == NewExecResult(script)
    IN CASE goos = "windows" ->
              IF isPowerShellScript(script.Name) THEN psExecute(execResult, run)
              ELSE IF isBatchScript(script.Name) \/ isVBScript(script.Name)
              THEN startCommandExecution(execResult, run)
              ELSE IF isPythonScript(script.Name)
              THEN \* lines 418-433: the inner cmd shadows the outer one, which
                   \* stays nil, so the result is returned as it was created
                   <<execResult, Nil, TRUE>>
              ELSE Unsupported(execResult, "Unsupported script type on Windows")
         [] goos \in {"darwin", "linux"} ->
              IF isShellScript(script.Name) \/ isPythonScript(script.Name)
              THEN startCommandExecution(execResult, run)
              ELSE Unsupported(execResult, "Unsupported script type on Unix")
         [] OTHER -> Unsupported(execResult, "Unsupported OS")

\* lines 388-445: what the invocation passes after the script path.  The
\* Windows branches append argsList, the darwin/linux branches argsSlice
ChildArgs(goos, argsList) ==
    IF goos = "windows" THEN argsList ELSE parseArguments(JoinArgs(argsList))

\* lines 353-379: os.CreateTemp, tmpFile.Write, tmpFile.Close and, off
\* Windows, os.Chmod.  [state, msg]: the file when executeScript goes on or
\* returns early ("none": never created, "open": created and not closed,
\* "closed"), and the error message of the early return
TempOutcomes == {"ok", "create fails", "write fails", "chmod fails"}
TempFile(io) ==
    CASE io = "create fails" -> [state |-> "none", msg |-> "Failed to create temp file"]
      [] io = "write fails" -> [state |-> "open", msg |-> "Failed to write script to temp file"]
      [] io = "chmod fails" -> [state |-> "closed", msg |-> "Failed to set script executable"]
      [] OTHER -> [state |-> "closed", msg |-> ""]

\* line 360: defer os.Remove(tmpFile.Name()), its error dropped.  Windows
\* refuses to delete a file that the process still holds open
osRemove(goos, tmp) ==
    IF tmp = "none" \/ (goos = "windows" /\ tmp = "open") THEN tmp ELSE "removed"

\* exec.CommandContext and cmd.Process.Kill (line 703) kill the process they
\* started, cmd.Process, and nothing else: no process group is set up, so
\* what the child has spawned lives on
KillLeavesOrphans(run) == run.exit = "killed" /\ run.tree = "descendants"

\* Runs executeScript returns from: cmd.Run of the PowerShell path has no
\* deadline, and the embedded python path panics on any error
Returns(goos, script, run) ==
    goos = "windows" /\ (isPowerShellScript(script.Name) \/ isPythonScript(script.Name))
       => run.exit \in {"zero", "nonzero", "nostart"}

\* executeScript returning before the dispatch (lines 353-379): the
\* temporary file could not be created, written or made executable
ExecuteScriptEarly(p, io) ==
    /\ pc[p] = "got"
    /\ io = "chmod fails" => GOOS # "windows"
    /\ LET tmpFile == TempFile(io)
       IN Set(p, [call[p] EXCEPT
                    !.result = [NewExecResult(call[p].script) EXCEPT
                                  !.ErrorOut = <<tmpFile.msg>>,
                                  !.Status = "failed"],
                    !.tmp = osRemove(GOOS, tmpFile.state),
                    !.err = "failed to execute script"])
    /\ Goto(p, "done")
    /\ UNCHANGED <<files, cacheMutex, serverScript, now, diskFaults, scoutConfig, GOOS>>

\* executeScript with the temporary file in place, then the rows (lines
\* 381-463 and 171-245); run is what the child does
ExecuteScriptRun(p, argsList, run) ==
    /\ pc[p] = "got"
    /\ Returns(GOOS, call[p].script, run)
    /\ LET r == executeScript(GOOS, call[p].script, run)
           fromCache == IF call[p].script.Cached THEN "true" ELSE "false"
           \* what the call holds once executeScript is left after the dispatch
           ran == [call[p] EXCEPT !.spawned = r[3],
                                  !.argsList = argsList,
                                  !.exit = IF r[3] THEN run.exit ELSE "",
                                  !.argv = IF r[3] THEN ChildArgs(GOOS, argsList) ELSE <<>>,
                                  !.orphans = r[3] /\ KillLeavesOrphans(run),
                                  !.tmp = osRemove(GOOS, TempFile("ok").state)]
       IN IF GOOS = "windows" /\ isPythonScript(call[p].script.Name) /\ run.exit # "zero"
          THEN /\ Set(p, [ran EXCEPT !.spawned = run.exit # "nostart",
                                     !.exit = IF run.exit # "nostart" THEN run.exit ELSE "",
                                     !.argv = IF run.exit # "nostart"
                                              THEN ChildArgs(GOOS, argsList) ELSE <<>>,
                                     !.orphans = FALSE])
               /\ Goto(p, "panic")
          ELSE IF r[2] # Nil
          THEN /\ Set(p, [ran EXCEPT !.result = r[1],
                                     !.err = "failed to execute script"])
               /\ Goto(p, "done")
          ELSE \E columns \in Orders(UnmarshalObject(r[1].ConsoleOut[1]).keys) :
                 LET result == [r[1] EXCEPT !.FromCache = fromCache]
                 IN /\ Set(p, [ran EXCEPT
                                 !.result = result,
                                 !.rows = Rows(result, call[p].useCache, columns)])
                    /\ Goto(p, "done")
    /\ UNCHANGED <<files, cacheMutex, serverScript, now, diskFaults, scoutConfig, GOOS>>

\* ScoutQuickExecGenerate 141 and 156-245: executeScript with the args
\* constraints of the query, then the rows
ExecuteScript(p, argLists, ios, runs) ==
    \E io \in ios :
      IF io # "ok"
      THEN ExecuteScriptEarly(p, io)
      ELSE \E argsList \in argLists, run \in runs : ExecuteScriptRun(p, argsList, run)

\* the call has returned to the host; the process serves the next query
Return(p) ==
    /\ pc[p] = "done"
    /\ Set(p, IdleCall)
    /\ Goto(p, "idle")
    /\ UNCHANGED <<files, cacheMutex, serverScript, now, diskFaults, scoutConfig, GOOS>>

(***************************************************************************)
(* startCommandExecution step by step (main.go 658-724), for a child that  *)
(* was started.  The child writes its output chunk by chunk and blocks     *)
(* while the pipe it writes to is full.  Two goroutines run io.ReadAll on  *)
(* the pipes and then send what they collected on an unbuffered channel.   *)
(* The caller sits in cmd.Wait, which returns once the child has ended and *)
(* closes the read ends of both pipes (os/exec: "Wait will close the pipe  *)
(* after seeing the command exit"), and then receives from the channels.   *)
(***************************************************************************)
\* the output a child writes, as chunks, each one line with its newline
Chunks == {<<>>, <<"hi">>, <<"hi", "ho">>}
ErrChunks == {<<>>, <<"e1", "e2">>}
ChildPlans == [code : {"zero", "nonzero", "hangs"}, out : Chunks, err : ErrChunks]

RECURSIVE Concat(_)
Concat(chunks) == IF Len(chunks) = 0 THEN "" ELSE Head(chunks) \o Concat(Tail(chunks))

\* executeScript lines 396-459: the invocations that reach startCommandExecution
UsesCommandExecution(goos, name) ==
    \/ goos = "windows" /\ ~isPowerShellScript(name)
                        /\ (isBatchScript(name) \/ isVBScript(name))
    \/ goos \in {"darwin", "linux"} /\ (isShellScript(name) \/ isPythonScript(name))

SetCmd(p, c, m) == Set(p, [c EXCEPT !.cmd = m])

\* lines 660-690 and 696: StdoutPipe, StderrPipe, cmd.Start, the two go
\* statements; the caller enters cmd.Wait
CmdStart(p, plan) ==
    /\ pc[p] = "got"
    /\ UsesCommandExecution(GOOS, call[p].script.Name)
    /\ SetCmd(p, [call[p] EXCEPT !.spawned = TRUE,
                                 !.argv = ChildArgs(GOOS, <<>>),
                                 !.tmp = TempFile("ok").state,
                                 !.result = NewExecResult(call[p].script)],
              [NoCmd EXCEPT !.main = "wait", !.child = "running",
                            !.code = plan.code,
                            !.todo = [out |-> plan.out, err |-> plan.err],
                            !.reader = [s \in Streams |-> "reading"]])
    /\ Goto(p, "cmd")
    /\ UNCHANGED <<files, cacheMutex, serverScript, now, diskFaults, scoutConfig, GOOS>>

\* the child writes its next chunk to stream s; the write blocks while the
\* pipe is full
ChildWrite(p, s) ==
    /\ call[p].cmd.child = "running"
    /\ call[p].cmd.todo[s] # <<>>
    /\ Len(call[p].cmd.pipe[s]) < PipeCap
    /\ SetCmd(p, call[p],
              [call[p].cmd EXCEPT !.todo[s] = Tail(@),
                                  !.written[s] = Append(@, Head(call[p].cmd.todo[s])),
                                  !.pipe[s] = Append(@, Head(call[p].cmd.todo[s]))])
    /\ UNCHANGED <<files, cacheMutex, serverScript, now, diskFaults, scoutConfig, GOOS, pc>>

\* the child has written everything and exits, which closes the write ends
ChildExit(p) ==
    /\ call[p].cmd.child = "running"
    /\ call[p].cmd.code # "hangs"
    /\ \A s \in Streams : call[p].cmd.todo[s] = <<>>
    /\ SetCmd(p, call[p], [call[p].cmd EXCEPT !.child = "exited"])
    /\ UNCHANGED <<files, cacheMutex, serverScript, now, diskFaults, scoutConfig, GOOS, pc>>

\* executeScript 382: context.WithTimeout.  The deadline passes while the
\* caller is in cmd.Wait; exec.CommandContext kills a child that still runs
ContextDeadline(p) ==
    /\ call[p].cmd.main = "wait"
    /\ call[p].cmd.ctx = "live"
    /\ SetCmd(p, call[p],
              [call[p].cmd EXCEPT !.ctx = "expired",
                                  !.child = IF @ = "running" THEN "killed" ELSE @])
    /\ UNCHANGED <<files, cacheMutex, serverScript, now, diskFaults, scoutConfig, GOOS, pc>>

\* variant: the readers are started once cmd.Wait has returned
ReaderStartedAfterWait(main) == main \in {"out", "err", "returned"}

\* lines 682-696: the go statements precede cmd.Wait, so the readers run
\* while the caller waits
ReaderStarted(main) == main \in {"wait", "out", "err", "returned"}

\* io.ReadAll of reader s takes a chunk out of the pipe
ReadAllRead(p, s) ==
    /\ call[p].cmd.reader[s] = "reading"
    /\ ReaderStarted(call[p].cmd.main)
    /\ ~call[p].cmd.closed
    /\ call[p].cmd.pipe[s] # <<>>
    /\ SetCmd(p, call[p],
              [call[p].cmd EXCEPT !.pipe[s] = Tail(@),
                                  !.read[s] = Append(@, Head(call[p].cmd.pipe[s]))])
    /\ UNCHANGED <<files, cacheMutex, serverScript, now, diskFaults, scoutConfig, GOOS, pc>>

\* lines 685 and 690: io.ReadAll returns, at end of file (the pipe is empty
\* and its write end closed) or with the error of a read end that cmd.Wait
\* has closed, which `out, _ :=` drops; the reader goes on to its send
ReadAllReturn(p, s) ==
    /\ call[p].cmd.reader[s] = "reading"
    /\ ReaderStarted(call[p].cmd.main)
    /\ \/ call[p].cmd.closed
       \/ call[p].cmd.pipe[s] = <<>> /\ call[p].cmd.child \in {"exited", "killed"}
    /\ SetCmd(p, call[p], [call[p].cmd EXCEPT !.reader[s] = "sending"])
    /\ UNCHANGED <<files, cacheMutex, serverScript, now, diskFaults, scoutConfig, GOOS, pc>>

\* the return of executeScript to ScoutQuickExecGenerate and the rows
\* (lines 156-245), with the deferred os.Remove of the temporary file
CmdReturn(p, m, result, err) ==
    LET c == [call[p] EXCEPT
                !.cmd = [m EXCEPT !.main = "returned"],
                !.exit = IF m.child = "killed" THEN "killed"
                         ELSE IF m.ctx = "expired" THEN "late" ELSE m.code,
                !.tmp = osRemove(GOOS, call[p].tmp)]
        fromCache == IF call[p].script.Cached THEN "true" ELSE "false"
    IN /\ IF err # Nil
          THEN Set(p, [c EXCEPT !.result = result, !.err = "failed to execute script"])
          ELSE \E columns \in Orders(UnmarshalObject(result.ConsoleOut[1]).keys) :
                 LET r == [result EXCEPT !.FromCache = fromCache]
                 IN Set(p, [c EXCEPT !.result = r,
                                     !.rows = Rows(r, call[p].useCache, columns)])
       /\ Goto(p, "done")

\* what cmd.Wait returns for a child that ended
WaitErr(m) ==
    IF m.child = "killed" THEN "signal: killed"
    ELSE IF m.code = "nonzero" THEN "exit status 1" ELSE Nil

\* lines 696-704: cmd.Wait returns once the child has ended and closes the
\* read ends; with the deadline passed the caller returns at once, without
\* receiving from the channels
CmdWait(p) ==
    /\ pc[p] = "cmd"
    /\ call[p].cmd.main = "wait"
    /\ call[p].cmd.child \in {"exited", "killed"}
    /\ LET m == [call[p].cmd EXCEPT !.closed = TRUE]
       IN IF m.ctx = "expired"
          THEN CmdReturn(p, m,
                         [call[p].result EXCEPT
                            !.ErrorOut = <<"Script execution timed out">>,
                            !.Status = "timeout"],
                         WaitErr(m))
          ELSE SetCmd(p, call[p], [m EXCEPT !.main = "out"]) /\ UNCHANGED pc
    /\ UNCHANGED <<files, cacheMutex, serverScript, now, diskFaults, scoutConfig, GOOS>>

\* line 707: execResult.ConsoleOut = <-stdoutChan
ReceiveStdout(p) ==
    /\ pc[p] = "cmd"
    /\ call[p].cmd.main = "out"
    /\ call[p].cmd.reader["out"] = "sending"
    /\ SetCmd(p, [call[p] EXCEPT !.result.ConsoleOut = call[p].cmd.read["out"] \o <<"">>],
              [call[p].cmd EXCEPT !.main = "err", !.reader["out"] = "finished"])
    /\ UNCHANGED <<files, cacheMutex, serverScript, now, diskFaults, scoutConfig, GOOS, pc>>

\* lines 708-723: execResult.ErrorOut += <-stderrChan, the status from the
\* error of cmd.Wait, and the return
ReceiveStderr(p) ==
    /\ pc[p] = "cmd"
    /\ call[p].cmd.main = "err"
    /\ call[p].cmd.reader["err"] = "sending"
    /\ LET m == [call[p].cmd EXCEPT !.reader["err"] = "finished"]
           stderr == Concat(m.read["err"])
       IN IF WaitErr(m) # Nil
          THEN CmdReturn(p, m,
                         [call[p].result EXCEPT
                            !.ErrorOut = <<stderr, "Script execution failed">>,
                            !.Status = "failed"],
                         WaitErr(m))
          ELSE CmdReturn(p, m,
                         [call[p].result EXCEPT !.ErrorOut = <<stderr>>,
                                                !.Status = "completed"],
                         Nil)
    /\ UNCHANGED <<files, cacheMutex, serverScript, now, diskFaults, scoutConfig, GOOS>>

\* the steps of the child and of the goroutines of one command execution
StartCommandExecutionStep(p) ==
    \/ \E s \in Streams : ChildWrite(p, s)
    \/ ChildExit(p)
    \/ ContextDeadline(p)
    \/ \E s \in Streams : ReadAllRead(p, s)
    \/ \E s \in Streams : ReadAllReturn(p, s)
    \/ CmdWait(p)
    \/ ReceiveStdout(p)
    \/ ReceiveStderr(p)

(***************************************************************************)
(* ScoutScriptCacheGenerate, the scout_cache table (main.go 248-323).  It  *)
(* takes no lock: the directory listing, the read of an entry's metadata   *)
(* and the read of its payload are three steps that other calls and other  *)
(* writers can come between.  The one key of the model gives at most one   *)
(* entry ending in .meta.                                                  *)
(***************************************************************************)
\* lines 259-273: os.ReadDir, and the entries that are files ending in .meta
ScoutScriptCacheList(p) ==
    /\ pc[p] = "idle"
    /\ Set(p, IdleCall)
    /\ Goto(p, IF files.meta.state = "absent" THEN "listed" ELSE "entry")
    /\ UNCHANGED <<files, cacheMutex, serverScript, now, diskFaults, scoutConfig, GOOS>>

\* lines 275-297: os.Stat, os.ReadFile and json.Unmarshal of the .meta file;
\* an entry that is gone by now or does not parse is skipped
ScoutScriptCacheMeta(p) ==
    /\ pc[p] = "entry"
    /\ IF files.meta.state = "ok"
       THEN Set(p, [call[p] EXCEPT !.scriptMeta = files.meta]) /\ Goto(p, "payload")
       ELSE Set(p, IdleCall) /\ Goto(p, "listed")
    /\ UNCHANGED <<files, cacheMutex, serverScript, now, diskFaults, scoutConfig, GOOS>>

\* variant: the row carries the hash stored in the metadata
ListedHashStored(scriptData, scriptMeta) == scriptMeta.ScriptHash

\* lines 306-310: script.Hash is recomputed from the payload
ListedHash(scriptData, scriptMeta) == Sha256Hex(scriptData)

\* lines 299-319: os.ReadFile of the payload and the row
ScoutScriptCachePayload(p) ==
    /\ pc[p] = "payload"
    /\ IF files.script = NoFile
       THEN Set(p, IdleCall)
       ELSE Set(p, [IdleCall EXCEPT
                      !.rows = << [name  |-> call[p].scriptMeta.ScriptName,
                                   hash  |-> ListedHash(files.script, call[p].scriptMeta),
                                   cache |-> "true"] >>])
    /\ Goto(p, "listed")
    /\ UNCHANGED <<files, cacheMutex, serverScript, now, diskFaults, scoutConfig, GOOS>>

\* line 322: the rows are returned to the host
ScoutScriptCacheReturn(p) ==
    /\ pc[p] = "listed"
    /\ Set(p, IdleCall)
    /\ Goto(p, "idle")
    /\ UNCHANGED <<files, cacheMutex, serverScript, now, diskFaults, scoutConfig, GOOS>>

ScoutScriptCacheGenerate(p) ==
    \/ ScoutScriptCacheList(p)
    \/ ScoutScriptCacheMeta(p)
    \/ ScoutScriptCachePayload(p)
    \/ ScoutScriptCacheReturn(p)

(***************************************************************************)
(* The environment: the clock, the server, and whoever else can write to   *)
(* the cache directory.  External writes are placed between the cache      *)
(* operations of the extension, not inside one.                            *)
(***************************************************************************)
Tick ==
    /\ now < MaxTime
    /\ now' = now + 1
    /\ UNCHANGED <<files, cacheMutex, serverScript, diskFaults, scoutConfig, GOOS, pc, call>>

ServerPublish ==
    /\ \E c \in Signed \ {serverScript} : serverScript' = c
    /\ UNCHANGED <<files, cacheMutex, now, diskFaults, scoutConfig, GOOS, pc, call>>

TamperValues(field) ==
    CASE field = "script" -> Contents \cup {NoFile}
      [] field = "sig" -> Signatures \cup {NoFile}
      [] OTHER -> {NoMeta, MalformedMeta}
                    \cup {CacheMeta(h, HostedName, t) : h \in Hashes, t \in 0..MaxTime}

Tamper(field) ==
    /\ cacheMutex = 0
    /\ diskFaults > 0
    /\ diskFaults' = diskFaults - 1
    /\ \E v \in TamperValues(field) :
         /\ v # files[field]
         /\ files' = [files EXCEPT ![field] = v]
    /\ UNCHANGED <<cacheMutex, serverScript, now, scoutConfig, GOOS, pc, call>>

(***************************************************************************)
(* Specifications.                                                         *)
(*   Spec:     the calls of Procs run concurrently against a disk that     *)
(*             nobody else writes to and that does not fail; the key is    *)
(*             an RSA key.  The clock, the server's content and every      *)
(*             network answer are free.                                    *)
(*   SpecDisk: one call at a time, any configured key, and up to MaxFaults *)
(*             disk faults: external writes to the cache files between     *)
(*             cache operations, and failing os.WriteFile.                 *)
(*   SpecExec: one call at a time on any host, for scripts of every kind,  *)
(*             any from_cache constraint and any behaviour of the child;   *)
(*             the clock stands and the disk is as in Spec.                *)
(*   SpecArgs: one call at a time on a Windows or a Linux host with any    *)
(*             args constraints; the child runs to a normal end.           *)
(*   SpecList: a scout_cache call of process 2 alongside the scout_exec    *)
(*             calls of process 1 and up to MaxListFaults external writes  *)
(*             to the cache files; the clock stands.                       *)
(***************************************************************************)
ScriptNameLists == {<<>>, <<HostedName>>, <<HostedName, "other.py">>}
CacheLists == {<<>>, <<"true">>}
Stdouts == {<<"hi", "">>}
Runs == [exit : {"zero", "nonzero", "killed"}, stdout : Stdouts, stderr : {""},
         tree : {"alone"}]

\* the args constraints and temporary-file outcomes of Spec and SpecDisk
NoArgs == {<<>>}
TempOK == {"ok"}

StepOn(p, nameLists, cacheLists, argLists, ios, runs) ==
    \/ \E n \in nameLists, c \in cacheLists : ScoutQuickExecGenerate(p, n, c)
    \/ GetScriptLoad(p)
    \/ GetScriptFreshness(p)
    \/ GetScriptRemoteHash(p)
    \/ GetScriptLoadSignature(p)
    \/ GetScriptVerifyCached(p)
    \/ GetScriptRemove(p)
    \/ GetScriptFetch(p)
    \/ SavePayload(p)
    \/ SaveMeta(p)
    \/ SaveSignature(p)
    \/ ExecuteScript(p, argLists, ios, runs)
    \/ Return(p)

Step(p) == StepOn(p, ScriptNameLists, CacheLists, NoArgs, TempOK, Runs)

Init == Start({"rsa"}, 0)

Next ==
    \/ \E p \in Procs : Step(p)
    \/ Tick
    \/ ServerPublish

Spec == Init /\ [][Next]_vars

InitDisk == Start(PublicKeys, MaxFaults)

NextDisk ==
    \/ Step(1)
    \/ Tick
    \/ ServerPublish
    \/ \E f \in {"script", "meta", "sig"} : Tamper(f)

SpecDisk == InitDisk /\ [][NextDisk]_vars

Hosts == {"windows", "darwin", "linux", "freebsd"}
ExecNames == {"hello.sh", "HELLO.SH", "other.py", "job.ps1", "job.bat", "job.vbs", "notes.txt"}
ExecNameLists == {<<>>, <<"hello.sh", "other.py">>} \cup {<<n>> : n \in ExecNames}
ExecCacheLists ==
    {<<>>, <<"true">>, <<"TRUE">>, <<"1">>, <<"0">>, <<"false">>, <<"yes">>,
     <<"false", "true">>}
ExecStdouts ==
    {<<"">>, <<"hi", "">>, <<"", LineA>>, <<LineA, LineB, "">>,
     <<LineA, "hi", LineB>>, <<LineNum, LineA>>, <<"hi", " ", "ho", "">>}
ExecRuns ==
    [exit : {"zero", "nonzero", "killed", "late", "nostart"}, stdout : ExecStdouts,
     stderr : {"", "oops"}, tree : {"alone", "descendants"}]

InitExec == StartOn({"rsa"}, 0, Hosts)

NextExec == StepOn(1, ExecNameLists, ExecCacheLists, NoArgs, TempOutcomes, ExecRuns)

SpecExec == InitExec /\ [][NextExec]_vars

\* The args constraints of SpecArgs.  JSON texts of arrays of strings, as
\* json.Marshal writes them and one with white space between the tokens,
\* each with the array it denotes; and strings that are no JSON array.
ArgElements ==
    {<<>>, <<"a">>, <<"a", " ", "x">>, <<"a", Quote, "x">>, <<"a", "'", "x">>,
     <<"a", Backslash>>}
StringArrays ==
    {<<>>} \cup {<<e>> : e \in ArgElements}
           \cup {<<e, f>> : e \in ArgElements, f \in ArgElements}

RECURSIVE JsonEscape(_)
JsonEscape(e) ==
    IF Len(e) = 0 THEN <<>>
    ELSE (IF Head(e) \in {Quote, Backslash} THEN <<Backslash, Head(e)>> ELSE <<Head(e)>>)
           \o JsonEscape(Tail(e))
JsonString(e) == <<Quote>> \o JsonEscape(e) \o <<Quote>>
RECURSIVE JsonElements(_)
JsonElements(array) ==
    IF Len(array) = 0 THEN <<>>
    ELSE IF Len(array) = 1 THEN JsonString(array[1])
    ELSE JsonString(array[1]) \o <<",">> \o JsonElements(Tail(array))
JsonArray(array) == <<"[">> \o JsonElements(array) \o <<"]">>

JsonArrayTexts ==
    {[text |-> JsonArray(array), array |-> array] : array \in StringArrays}
      \cup {[text  |-> <<" ", "[", " ", Quote, "a", Quote, " ", ",", " ",
                         Quote, "x", Quote, " ", "]", " ">>,
             array |-> << <<"a">>, <<"x">> >>]}

PlainArgs ==
    {<<"a">>, <<"a", " ", "x">>, <<Quote, "a", " ", "x", Quote, " ", "a">>,
     <<"'", "a", " ", "x", "'">>, <<"a", " ">>, <<"[", Quote, "a", Quote>>,
     <<"[", "a", "]">>}

ArgLists ==
    {<<>>} \cup {<<t.text>> : t \in JsonArrayTexts} \cup {<<a>> : a \in PlainArgs}
           \cup {<< <<"a", " ", "x">>, <<"a">> >>,
                 << <<"[", Quote, "a", Quote, "]">>, <<"x">> >>}

ArgHosts == {"windows", "linux"}
ArgNameLists == {<<>>, <<"hello.sh">>, <<"job.bat">>, <<"hello.sh", "other.py">>}
ArgRuns == [exit : {"zero"}, stdout : Stdouts, stderr : {""}, tree : {"alone"}]

ListNameLists == {<<>>, <<HostedName>>, <<HostedName, "other.py">>}
ListRuns == [exit : {"zero"}, stdout : Stdouts, stderr : {""}, tree : {"alone"}]

InitList == Start({"rsa"}, MaxListFaults)

NextList ==
    \/ StepOn(1, ListNameLists, CacheLists, NoArgs, TempOK, ListRuns)
    \/ ScoutScriptCacheGenerate(2)
    \/ ServerPublish
    \/ \E f \in {"script", "meta", "sig"} : Tamper(f)

SpecList == InitList /\ [][NextList]_vars

InitArgs == StartOn({"rsa"}, 0, ArgHosts)

NextArgs == StepOn(1, ArgNameLists, CacheLists, ArgLists, TempOK, ArgRuns)

SpecArgs == InitArgs /\ [][NextArgs]_vars

\* One call on Linux whose command execution is followed task by task,
\* in place of the single step ExecuteScript
PipeNameLists == {<<HostedName>>}

InitPipes == Start({"rsa"}, 0)

NextPipes ==
    \/ \E n \in PipeNameLists, c \in CacheLists : ScoutQuickExecGenerate(1, n, c)
    \/ GetScriptLoad(1)
    \/ GetScriptFreshness(1)
    \/ GetScriptRemoteHash(1)
    \/ GetScriptLoadSignature(1)
    \/ GetScriptVerifyCached(1)
    \/ GetScriptRemove(1)
    \/ GetScriptFetch(1)
    \/ SavePayload(1)
    \/ SaveMeta(1)
    \/ SaveSignature(1)
    \/ \E plan \in ChildPlans : CmdStart(1, plan)
    \/ StartCommandExecutionStep(1)
    \/ Return(1)

SpecPipes == InitPipes /\ [][NextPipes]_vars

(***************************************************************************)
(* Properties.                                                             *)
(***************************************************************************)

\* C1: executeScript is invoked only with contents whose signature was
\* verified earlier in the same call, over a digest computed from those very
\* bytes: what is handed to the executor, and what a spawned child ran, is
\* byte for byte what rsa.VerifyPKCS1v15 accepted.  A call whose fetched
\* script fails verification ends with the error, without a Script, without
\* a child and without rows.
ExecutesOnlyVerified ==
    \A p \in Procs :
      /\ pc[p] = "got" \/ call[p].spawned =>
           /\ call[p].verified # NoData
           /\ call[p].script.Contents = call[p].verified
      /\ pc[p] = "done" /\ call[p].err = "Script signature verification failed" =>
           /\ call[p].script = NoScript
           /\ ~call[p].spawned
           /\ call[p].rows = <<>>

\* a fetched script was verified, saved and run
ExecutedFetched ==
    \E p \in Procs :
      /\ pc[p] = "done"
      /\ call[p].spawned
      /\ call[p].gets = 1
      /\ call[p].script.Contents = call[p].verified

\* C2: the save is reached only after the fetched bytes were verified; the
\* payload it writes is those bytes, the metadata it writes carries the
\* SHA-256 of the payload it wrote, and no step of the extension puts bytes
\* into the payload file that the writing call has not verified.
SavesOnlyVerified ==
    [][/\ \A p \in Procs :
            /\ pc[p] \in {"save1", "save2", "save3"} =>
                 /\ call[p].verified # NoData
                 /\ call[p].script.Contents = call[p].verified
            /\ pc[p] = "save1" /\ pc'[p] = "save2" =>
                 files'.script = call[p].verified
            /\ pc[p] = "save2" /\ pc'[p] = "save3" =>
                 /\ files'.script = call[p].verified
                 /\ files'.meta.state = "ok"
                 /\ files'.meta.ScriptHash = Sha256Hex(files'.script)
       /\ files'.script # files.script /\ diskFaults' = diskFaults =>
            \/ files'.script = NoFile
            \/ \E p \in Procs : pc[p] = "save1" /\ files'.script = call[p].verified
      ]_vars

\* a fetched script has been saved completely
SavedFetched ==
    \E p \in Procs :
      /\ pc[p] = "got"
      /\ ~call[p].script.Cached
      /\ files.script = call[p].verified
      /\ files.meta.state = "ok"
      /\ files.meta.ScriptHash = Sha256Hex(files.script)
      /\ files.sig # NoFile

\* C3: every Script getScript produces, from the cache or from a fetch, has
\* hash = hex(SHA-256(contents)).
ScriptHashIsContentHash ==
    \A p \in Procs :
      call[p].script # NoScript =>
        call[p].script.Hash = Sha256Hex(call[p].script.Contents)

\* a script returned from a cache entry whose metadata names another hash
CachedWithForeignMetaHash ==
    \E p \in Procs :
      /\ pc[p] = "got"
      /\ call[p].script.Cached
      /\ files.meta.state = "ok"
      /\ files.meta.ScriptHash # Sha256Hex(call[p].script.Contents)

\* C4: when getScript returns a Script from the cache, the signature file on
\* disk at that moment verifies against the recomputed hash of the returned
\* contents, whatever other calls for the same script have done meanwhile.
DiskSignatureVerifiesAtReturn ==
    [][\A p \in Procs :
         pc[p] = "verify" /\ pc'[p] = "got" =>
           /\ files'.sig # NoFile
           /\ VerifyPKCS1v15(Sha256Hex(call'[p].script.Contents), files'.sig)
      ]_vars

\* C5: a Script is returned from the cache only if the entry loaded without
\* error, its age was strictly below cache_window, so that cache_window = 0
\* never serves from the cache, the hash request succeeded and returned
\* metadata.script_hash, and the cached signature verified.
CachedReturnPassedEveryGate ==
    [][\A p \in Procs :
         pc[p] # "got" /\ pc'[p] = "got" /\ call'[p].script.Cached =>
           /\ call[p].cacheErr = Nil
           /\ call[p].scriptMeta.state = "ok"
           /\ call[p].checkedAt - call[p].scriptMeta.CacheTime < scoutConfig.CacheWindow
           /\ scoutConfig.CacheWindow # 0
           /\ call[p].hashErr = Nil
           /\ call[p].currentHash = call[p].scriptMeta.ScriptHash
           /\ call[p].signature = Sign(Sha256Hex(call[p].scriptData))
      ]_vars

\* C6: getScript returns no cache entry whose payload hashes to something
\* else than metadata.script_hash, even if the payload carries a signature
\* that verifies.
CachedPayloadMatchesMetaHash ==
    [][\A p \in Procs :
         pc[p] # "got" /\ pc'[p] = "got" /\ call'[p].script.Cached =>
           Sha256Hex(call[p].scriptData) = call[p].scriptMeta.ScriptHash
      ]_vars

WarmCacheServedUntouched ==
    [][\A p \in Procs :
         /\ pc[p] \in {"load", "fresh", "hash", "sig", "verify"} =>
              call[p].gets = 0 /\ ~call[p].wrote
         /\ pc[p] \in {"load", "fresh", "hash", "sig", "verify"} /\ pc'[p] # pc[p] =>
              files' = files
         /\ ( /\ pc[p] = "load" /\ pc'[p] # "load"
              /\ files.script # NoFile /\ files.meta.state = "ok" )
            => pc'[p] = "fresh"
         /\ ( /\ pc[p] = "fresh" /\ pc'[p] # "fresh"
              /\ now - call[p].scriptMeta.CacheTime < scoutConfig.CacheWindow )
            => pc'[p] = "hash"
         /\ ( /\ pc[p] = "hash" /\ pc'[p] # "hash"
              /\ call'[p].hashErr = Nil
              /\ call'[p].currentHash = call[p].scriptMeta.ScriptHash )
            => pc'[p] = "sig"
         /\ pc[p] = "sig" /\ pc'[p] # "sig" /\ files.sig # NoFile =>
              pc'[p] = "verify"
         /\ ( /\ pc[p] = "verify" /\ pc'[p] # "verify"
              /\ ParsePublicKey(scoutConfig.PublicKey) = Nil
              /\ call[p].signature = Sign(Sha256Hex(call[p].scriptData)) )
            => /\ pc'[p] = "got"
               /\ call'[p].script.Cached
               /\ call'[p].script.Contents = call[p].scriptData
               /\ call'[p].gets = 0 /\ ~call'[p].wrote
      ]_vars

\* a script was returned from the cache without a GET or a cache write
ServedFromWarmCache ==
    \E p \in Procs :
      /\ pc[p] = "got"
      /\ call[p].script.Cached
      /\ call[p].gets = 0
      /\ ~call[p].wrote

\* C9: the from_cache column of every row says where the script came from:
\* "true" when it was returned from the cache, "false" when it was fetched,
\* also when the query asked for from_cache = "true".
RowsReportProvenance ==
    \A p \in Procs :
      pc[p] = "done" =>
        \A i \in 1..Len(call[p].rows) :
          call[p].rows[i].from_cache =
            IF call[p].script.Cached THEN "true" ELSE "false"

\* C10: a save that succeeds leaves payload, metadata and signature on disk;
\* a remove leaves none of them and goes on without an error, whichever of
\* them were missing before.
SaveLeavesAllRemoveLeavesNone ==
    [][\A p \in Procs :
         /\ pc[p] = "save3" /\ pc'[p] = "got" =>
              /\ files'.script = call[p].script.Contents
              /\ files'.meta.state = "ok"
              /\ files'.sig = call[p].signature
              /\ NoFile \notin {files'.script, files'.sig}
         /\ pc[p] = "remove" /\ pc'[p] # "remove" =>
              /\ files' = [script |-> NoFile, meta |-> NoMeta, sig |-> NoFile]
              /\ pc'[p] = "fetch"
              /\ call'[p].err = Nil
      ]_vars

\* a call that asked for the cache removed the entry, fetched and saved
RemovedThenSaved ==
    \E p \in Procs :
      /\ pc[p] = "got"
      /\ call[p].cacheBool
      /\ ~call[p].script.Cached
      /\ call[p].wrote
      /\ files.meta.state = "ok"
      /\ NoFile \notin {files.script, files.sig}

\* C11: right after a save, loadScriptFromCache returns the bytes and the
\* metadata (script_hash, script_name) that were saved and
\* loadSignatureFromCache returns the saved signature; whatever an earlier
\* save had left under the key is gone: payload, metadata and signature are
\* all those of this save.
SaveThenLoadReturnsSaved ==
    [][\A p \in Procs :
         pc[p] = "save3" /\ pc'[p] = "got" =>
           /\ loadScriptFromCache(files')[3] = Nil
           /\ loadScriptFromCache(files')[1] = call[p].script.Contents
           /\ loadScriptFromCache(files')[2].ScriptHash = call[p].script.Hash
           /\ loadScriptFromCache(files')[2].ScriptName = call[p].script.Name
           /\ loadSignatureFromCache(files') = <<call[p].signature, Nil>>
           /\ files'.script = call[p].script.Contents
           /\ files'.meta = [state |-> "ok",
                             ScriptHash |-> call[p].script.Hash,
                             ScriptName |-> call[p].script.Name,
                             CacheTime |-> files'.meta.CacheTime]
           /\ files'.sig = call[p].signature
      ]_vars

\* a save of other content is about to replace the signature of an earlier one
ReplacingEarlierSave ==
    \E p \in Procs :
      /\ pc[p] = "save3"
      /\ files.script = call[p].script.Contents
      /\ files.sig \in Signatures \ {call[p].signature}

\* C12: no reader of the cache observes a partially saved entry, also under
\* concurrent calls: the payload, the metadata and the signature a call of
\* getScript has read all come from one completed save, that is, the
\* metadata names the hash of the payload and the signature is the one of
\* that payload.
ReadersObserveOneSave ==
    \A p \in Procs :
      pc[p] = "verify" =>
        /\ call[p].scriptMeta.ScriptHash = Sha256Hex(call[p].scriptData)
        /\ call[p].signature = Sign(Sha256Hex(call[p].scriptData))

\* C13: a child that runs past the deadline still gives the host rows:
\* timeout is a status, not an error, and the call returns one row with
\* status = "timeout".
TimeoutReturnsRow ==
    \A p \in Procs :
      pc[p] = "done" /\ call[p].result.Status = "timeout" =>
        /\ call[p].err = Nil
        /\ Len(call[p].rows) = 1
        /\ call[p].rows[1].status = "timeout"

\* C14: on every host and for every script kind that has an invocation
\* there (windows: powershell, batch, vbscript, python; darwin and linux:
\* shell, python), a child that never exits by itself is killed at the
\* deadline and executeScript returns with status = "timeout": the call
\* about to execute can take that step.
HangingChildTimesOut ==
    \A p \in Procs :
      ( /\ pc[p] = "got"
        /\ \/ GOOS = "windows"
              /\ LowerExt(call[p].script.Name) \in {".ps1", ".bat", ".vbs", ".py"}
           \/ GOOS \in {"darwin", "linux"}
              /\ LowerExt(call[p].script.Name) \in {".sh", ".py"} )
      => \E run \in ExecRuns :
           /\ run.exit = "killed"
           /\ ENABLED ( /\ ExecuteScriptRun(p, <<>>, run)
                        /\ call'[p].result.Status = "timeout" )

\* C15: once executeScript has returned with status = "timeout", no process
\* of the child's tree is left running: the interpreter and everything it
\* has spawned were killed at the deadline.
NoOrphanAfterTimeout ==
    \A p \in Procs :
      pc[p] = "done" /\ call[p].result.Status = "timeout" => ~call[p].orphans

\* C16: a script whose name maps to no known kind, or to a kind that has no
\* invocation on the host, never gets a child process: whenever a child was
\* spawned, the host and the extension of the name are one of the pairs that
\* have an invocation.
NoInvocationNoChild ==
    \A p \in Procs :
      call[p].spawned =>
        \/ GOOS = "windows"
           /\ LowerExt(call[p].script.Name) \in {".ps1", ".bat", ".vbs", ".py"}
        \/ GOOS \in {"darwin", "linux"}
           /\ LowerExt(call[p].script.Name) \in {".sh", ".py"}

\* a script without an invocation on the host went through executeScript
ExecutedUnsupported ==
    \E p \in Procs :
      /\ pc[p] = "done"
      /\ call[p].script.Contents # NoData
      /\ call[p].result.ErrorOut \in {<<"Unsupported script type on Windows">>,
                                      <<"Unsupported script type on Unix">>,
                                      <<"Unsupported OS">>}
      /\ ~call[p].spawned

\* C17: an unsupported script kind or an unsupported host makes the call
\* fail: ScoutQuickExecGenerate returns an error, not a successful empty
\* result.
UnsupportedSurfacesAsError ==
    \A p \in Procs :
      ( /\ pc[p] = "done"
        /\ call[p].result.ErrorOut \in {<<"Unsupported script type on Windows">>,
                                        <<"Unsupported script type on Unix">>,
                                        <<"Unsupported OS">>} )
      => call[p].err # Nil

\* C18: when the first line of the output is a JSON object, every non-blank
\* line that the parse of the first line accepts gives exactly one row, in
\* the order of the lines; the other lines are dropped and the call does not
\* fail.
JsonLinesEachGiveARow ==
    \A p \in Procs :
      LET consoleLines == call[p].result.ConsoleOut
          Accepted(line) == ~IsBlank(line) /\ UnmarshalObject(line).ok
          accepted == SelectSeq(consoleLines, Accepted)
      IN ( /\ pc[p] = "done"
           /\ call[p].err = Nil
           /\ UnmarshalObject(consoleLines[1]).ok )
         => /\ Len(call[p].rows) = Len(accepted)
            /\ \A i \in 1..Len(accepted) :
                 accepted[i] \in {LineA, LineB} =>
                   /\ call[p].rows[i].a = (IF accepted[i] = LineA THEN "1" ELSE "3")
                   /\ call[p].rows[i].script_name = call[p].result.ScriptName
                   /\ call[p].rows[i].status = call[p].result.Status

\* C19: the columns field of the rows of a JSON-mode call is the first
\* line's keys in the order the line has them: "a,b" whenever the first
\* line is {"a":..,"b":..}, in every row.
ColumnsInFirstLineOrder ==
    \A p \in Procs :
      ( /\ pc[p] = "done"
        /\ call[p].err = Nil
        /\ call[p].result.ConsoleOut[1] \in {LineA, LineB} )
      => \A i \in 1..Len(call[p].rows) : call[p].rows[i].columns = "a,b"

\* C20: a call with no script_name constraint or with more than one ends
\* with an error in its first step, the cache directory untouched, no GET
\* issued and no child started; with exactly one, use_cache is true exactly
\* when the first from_cache value, letter case aside, is "true" or "1", and
\* false when it is anything else or absent.
OneScriptNameAndCacheFlag ==
    [][\A scriptNames \in ExecNameLists, cacheList \in ExecCacheLists :
         ScoutQuickExecGenerate(1, scriptNames, cacheList) =>
           IF Len(scriptNames) # 1
           THEN /\ pc'[1] = "done"
                /\ call'[1].err # Nil
                /\ call'[1].rows = <<>>
                /\ files' = files
                /\ call'[1].gets = 0
                /\ ~call'[1].wrote
                /\ ~call'[1].spawned
           ELSE /\ call'[1].err = Nil
                /\ call'[1].cacheBool =
                     ( /\ Len(cacheList) > 0
                       /\ cacheList[1] \in {"true", "TRUE", "1"} )
                /\ pc'[1] = (IF call'[1].cacheBool THEN "load" ELSE "fetch")
      ]_vars

\* a call whose from_cache constraint is TRUE in capitals goes to the cache
CapitalTrueUsesCache ==
    \E p \in Procs :
      /\ pc[p] = "load"
      /\ call[p].useCache = "TRUE"
      /\ call[p].cacheBool

\* C20 as stated: use_cache is true only when the first from_cache value is
\* exactly "true" or "1".
CacheFlagOnlyExactTrueOrOne ==
    \A p \in Procs : call[p].cacheBool => call[p].useCache \in {"true", "1"}

\* C21: an argument string that is itself a JSON array of strings is parsed
\* to exactly that array: same elements, same order, elements with spaces,
\* quotes or backslashes not split any further.
JsonArrayArgsKept ==
    \A p \in Procs :
      pc[p] = "done" /\ call[p].spawned /\ GOOS = "linux" =>
        \A t \in JsonArrayTexts :
          call[p].argsList = <<t.text>> => call[p].argv = t.array

\* a child got the two elements of a JSON array, one with a space in it and
\* one with a quote
RanWithJsonArrayArgs ==
    \E p \in Procs :
      /\ pc[p] = "done"
      /\ GOOS = "linux"
      /\ call[p].spawned
      /\ call[p].argsList = << JsonArray(<< <<"a", " ", "x">>, <<"a", Quote, "x">> >>) >>
      /\ call[p].argv = << <<"a", " ", "x">>, <<"a", Quote, "x">> >>

\* C22: the scout_cache call gives one row for a .meta entry whose metadata
\* parses and whose payload can be read, with the name of the metadata and
\* the SHA-256 computed from the payload, not the hash the metadata stores;
\* an entry whose metadata or payload cannot be read gives no row; and no
\* step of the call changes a cache file.
ListedFromPayload ==
    [][\A p \in Procs :
         /\ pc[p] = "idle" /\ pc'[p] \in {"entry", "listed"} =>
              /\ files' = files
              /\ call'[p].rows = <<>>
              /\ pc'[p] = "entry" <=> files.meta.state # "absent"
         /\ pc[p] = "entry" /\ pc'[p] # "entry" =>
              /\ files' = files
              /\ call'[p].rows = <<>>
              /\ pc'[p] = (IF files.meta.state = "ok" THEN "payload" ELSE "listed")
         /\ pc[p] = "payload" /\ pc'[p] # "payload" =>
              /\ files' = files
              /\ pc'[p] = "listed"
              /\ IF files.script = NoFile
                 THEN call'[p].rows = <<>>
                 ELSE /\ Len(call'[p].rows) = 1
                      /\ call'[p].rows[1].name = call[p].scriptMeta.ScriptName
                      /\ call'[p].rows[1].hash = Sha256Hex(files.script)
         /\ pc[p] = "listed" /\ pc'[p] # "listed" => files' = files
      ]_vars

\* a row whose hash is not the one the entry's metadata stores
ListedWithForeignMetaHash ==
    \E p \in Procs :
      /\ pc[p] = "listed"
      /\ Len(call[p].rows) = 1
      /\ files.meta.state = "ok"
      /\ call[p].rows[1].hash = Sha256Hex(files.script)
      /\ call[p].rows[1].hash # files.meta.ScriptHash

\* C23: with use_cache = true, a cache entry that cannot be used (payload,
\* metadata or signature missing, metadata malformed, entry stale, remote
\* hash different or not obtained, signature not verifying) is handled as if
\* there were none: the call goes on to remove the entry and then to fetch,
\* and no step of the cache path ends the call or sets its error.
CacheAnomalyRefetches ==
    [][\A p \in Procs :
         /\ pc[p] \in {"load", "fresh", "hash", "sig", "verify"} /\ pc'[p] # pc[p] =>
              /\ pc'[p] \in {"fresh", "hash", "sig", "verify", "got", "remove"}
              /\ call'[p].err = Nil
              /\ files' = files
         /\ ( /\ pc[p] = "load" /\ pc'[p] # "load"
              /\ files.script = NoFile \/ files.meta.state # "ok" )
            => pc'[p] = "remove"
         /\ ( /\ pc[p] = "fresh" /\ pc'[p] # "fresh"
              /\ now - call[p].scriptMeta.CacheTime >= scoutConfig.CacheWindow )
            => pc'[p] = "remove"
         /\ ( /\ pc[p] = "hash" /\ pc'[p] # "hash"
              /\ call'[p].hashErr # Nil \/ call'[p].currentHash # call[p].scriptHash )
            => pc'[p] = "remove"
         /\ pc[p] = "sig" /\ pc'[p] # "sig" /\ files.sig = NoFile => pc'[p] = "remove"
         /\ ( /\ pc[p] = "verify" /\ pc'[p] # "verify"
              /\ call[p].signature # Sign(Sha256Hex(call[p].scriptData)) )
            => pc'[p] = "remove"
         /\ pc[p] = "remove" /\ pc'[p] # "remove" =>
              /\ files' = EmptyCache
              /\ pc'[p] = "fetch"
              /\ call'[p].err = Nil
              /\ call'[p].gets = 0
      ]_vars

\* a call that asked for the cache found a stale entry, removed it, fetched
\* the script again and ran it
StaleEntryRefetched ==
    \E p \in Procs :
      /\ pc[p] = "done"
      /\ call[p].cacheBool
      /\ call[p].wrote
      /\ call[p].gets = 1
      /\ ~call[p].script.Cached
      /\ call[p].spawned
      /\ call[p].err = Nil
      /\ scoutConfig.CacheWindow = 0

\* C24: a call with use_cache = false never enters the cache path: it does
\* not load the entry, does not ask the hash endpoint and removes nothing;
\* it issues the GET, goes on only with bytes whose signature verified,
\* returns a Script that is not marked as cached, and when its save
\* succeeds the entry of the key is the fetched payload, its metadata and
\* its signature.
NoCacheAlwaysFetches ==
    [][\A p \in Procs :
         /\ ~call'[p].cacheBool /\ pc'[p] # "idle" =>
              /\ pc'[p] \in {"fetch", "save1", "save2", "save3", "got", "done", "panic"}
              /\ ~call'[p].script.Cached
         /\ pc[p] = "idle" /\ pc'[p] = "fetch" => files' = files
         /\ ~call[p].cacheBool /\ pc[p] = "fetch" /\ pc'[p] # "fetch" =>
              /\ call'[p].gets = 1
              /\ files' = files
              /\ \/ /\ pc'[p] = "save1"
                    /\ call'[p].verified # NoData
                    /\ call'[p].script.Contents = call'[p].verified
                 \/ /\ pc'[p] = "done"
                    /\ call'[p].err # Nil
                    /\ call'[p].script = NoScript
         /\ ~call[p].cacheBool /\ pc[p] = "save3" /\ pc'[p] = "got" =>
              /\ files'.script = call[p].verified
              /\ files'.meta.state = "ok"
              /\ files'.meta.ScriptHash = Sha256Hex(call[p].verified)
              /\ files'.meta.ScriptName = call[p].reqName
              /\ files'.sig = Sign(Sha256Hex(call[p].verified))
      ]_vars

\* a call without from_cache has replaced the entry another script version
\* was cached under
ReplacedWithoutCache ==
    \E p \in Procs :
      /\ pc[p] = "got"
      /\ ~call[p].cacheBool
      /\ call[p].gets = 1
      /\ call[p].verified = "v2"
      /\ files.script = "v2"
      /\ files.meta.state = "ok"
      /\ files.meta.ScriptHash = Sha256Hex("v2")
      /\ files.sig = Sign(Sha256Hex("v2"))

\* C25: when the hash request fails for an entry that loaded and is inside
\* the freshness window, the cached copy is not served: the call removes
\* the entry and fetches; if that fetch fails too, the call ends with the
\* error, without a script, a child or rows, and puts nothing back under
\* the key.
HashUnreachableNotServed ==
    [][\A p \in Procs :
         /\ pc[p] = "hash" /\ pc'[p] # "hash" /\ call'[p].hashErr # Nil =>
              /\ pc'[p] = "remove"
              /\ call'[p].script = NoScript
         /\ pc[p] = "remove" /\ call[p].hashErr # Nil /\ pc'[p] # "remove" =>
              /\ pc'[p] = "fetch"
              /\ files' = EmptyCache
         /\ call[p].cacheBool /\ pc[p] = "fetch" /\ pc'[p] = "done" =>
              /\ call'[p].err # Nil
              /\ call'[p].script = NoScript
              /\ call'[p].rows = <<>>
              /\ ~call'[p].spawned
              /\ files' = files
      ]_vars

\* the hash request has failed for an entry that is complete, consistent,
\* signed and inside the window; the call is about to remove it
ValidEntryRefusedHashUnreachable ==
    \E p \in Procs :
      /\ pc[p] = "remove"
      /\ call[p].hashErr # Nil
      /\ files.script \in Signed
      /\ files.meta.state = "ok"
      /\ files.meta.ScriptHash = Sha256Hex(files.script)
      /\ now - files.meta.CacheTime < scoutConfig.CacheWindow
      /\ files.sig = Sign(Sha256Hex(files.script))

\* C26: when the child has ended by itself, status is "completed" exactly
\* when it exited with code zero; otherwise status is "failed", error_out
\* is the captured stderr followed by the platform error, and the call
\* fails without rows.
StatusFollowsExitCode ==
    \A p \in Procs :
      pc[p] = "done" /\ call[p].exit \in {"zero", "nonzero"} =>
        IF call[p].exit = "zero"
        THEN /\ call[p].result.Status = "completed"
             /\ call[p].err = Nil
        ELSE /\ call[p].result.Status = "failed"
             /\ Len(call[p].result.ErrorOut) = 2
             /\ call[p].result.ErrorOut[2] = "Script execution failed"
             /\ call[p].err # Nil
             /\ call[p].rows = <<>>

\* C27: the schema is decided by the first non-blank line of the output:
\* when blank lines are followed by a JSON object line, the rows are JSON
\* rows with the columns of that object, not console_out rows.
SchemaFromFirstNonBlankLine ==
    \A p \in Procs :
      LET NonBlank(line) == line \notin {"", " "}
          lines == SelectSeq(call[p].result.ConsoleOut, NonBlank)
      IN ( /\ pc[p] = "done"
           /\ call[p].err = Nil
           /\ Len(lines) > 0
           /\ lines[1] \in {LineA, LineB} )
         => /\ Len(call[p].rows) > 0
            /\ \A i \in 1..Len(call[p].rows) :
                 call[p].rows[i].columns \in {"a,b", "b,a"}

ChildGetsParsedArgs ==
    \A p \in Procs :
      call[p].spawned =>
        call[p].argv = parseArguments(JoinArgs(call[p].argsList))

\* C30: once executeScript has returned, the temporary script file it
\* created is gone, whichever way it returned: success, failed write or
\* chmod, unsupported kind or host, failed spawn, non-zero exit, timeout.
TempFileGone ==
    \A p \in Procs : pc[p] = "done" => call[p].tmp \in {"none", "removed"}

\* C32: every successful getScript returns a Script whose Name is the
\* requested name, and the metadata it saved for the key carries that name
\* as ScriptName, also when from_cache is set and the cache load fails.
ReturnedNameIsRequested ==
    \A p \in Procs :
      pc[p] = "got" =>
        /\ call[p].script.Name = call[p].reqName
        /\ ~call[p].script.Cached => files.meta.ScriptName = call[p].reqName

\* What a getScript(name, true) started in this state does when the hash
\* request is answered honestly: TRUE when every gate of lines 491-531
\* passes, so that the cached script is returned without a GET.
NextGetServedFromCache ==
    LET r == loadScriptFromCache(files)
        a == HonestHash(r[2].ScriptName)
        s == loadSignatureFromCache(files)
    IN /\ r[3] = Nil
       /\ CacheFresh(now, r[2].CacheTime, scoutConfig.CacheWindow)
       /\ HashCurrent(a.err, a.hash, r[2].ScriptHash)
       /\ s[2] = Nil
       /\ ParsePublicKey(scoutConfig.PublicKey) = Nil
       /\ CacheVerified(Sha256Hex(r[1]), s[1])

\* C33: when getScript(name, true) has fetched and saved the script the
\* server publishes, a getScript(name, true) that follows at once, the
\* server unchanged and the entry younger than cache_window, is served from
\* the cache.
SecondGetServedFromCache ==
    \A p \in Procs :
      ( /\ pc[p] = "got"
        /\ call[p].cacheBool
        /\ call[p].reqName = HostedName
        /\ call[p].gets = 1
        /\ ~call[p].script.Cached
        /\ call[p].script.Contents = serverScript
        /\ scoutConfig.CacheWindow > 0 )
      => NextGetServedFromCache

\* C34: whenever executeScript has returned, the Status of its result is
\* completed, failed or timeout, on every host and for every script kind.
StatusIsFinal ==
    \A p \in Procs :
      (pc[p] = "done" /\ call[p].script # NoScript) =>
        call[p].result.Status \in {"completed", "failed", "timeout"}

\* C37: the removal of lines 569-575 deletes only the entry its own call
\* has loaded and refused: a call whose load found no entry deletes
\* nothing, whatever another call has saved under the key in the meantime.
RemovalDeletesOnlyWhatItLoaded ==
    [][\A p \in Procs :
         (pc[p] = "remove" /\ pc'[p] = "fetch" /\ call[p].cacheErr # Nil)
           => files' = files]_vars

\* payload, metadata and signature as one saveScriptToCache leaves them
WrittenByOneSave(entry) ==
    /\ entry.script # NoFile
    /\ entry.meta # NoMeta
    /\ entry.meta.ScriptHash = Sha256Hex(entry.script)
    /\ entry.sig = Sign(Sha256Hex(entry.script))

\* the getScript of call p has fetched the script and saved it
FetchedAndSaved(p) ==
    /\ pc[p] \in {"got", "done"}
    /\ call[p].script # NoScript
    /\ ~call[p].script.Cached

\* C38: when the concurrent getScript calls have all finished, none with a
\* save error, the entry of the key is absent as a whole or is the payload,
\* metadata and signature of one save, and it is present when one of the
\* calls has fetched and saved.
FinishedGetsLeaveOneSave ==
    (\A p \in Procs : /\ pc[p] \in {"got", "done"}
                      /\ call[p].err # "failed to save script to cache")
      => /\ files = EmptyCache \/ WrittenByOneSave(files)
         /\ (\E p \in Procs : FetchedAndSaved(p)) => files # EmptyCache

\* C31: a child that writes more than a pipe holds cannot deadlock the
\* call.  While the child runs and the caller is in cmd.Wait, each stream
\* the child has yet to write to has room in its pipe or a reader that can
\* take a chunk out of it; and once the child has ended, the task the
\* caller is waiting for can take a step until startCommandExecution has
\* returned.
PipesCannotDeadlock ==
    \A p \in Procs :
      /\ \A s \in Streams :
           (call[p].cmd.child = "running" /\ call[p].cmd.todo[s] # <<>>)
             => ENABLED ChildWrite(p, s) \/ ENABLED ReadAllRead(p, s)
      /\ (call[p].cmd.child \in {"exited", "killed"} /\ call[p].cmd.main = "wait")
           => ENABLED CmdWait(p)
      /\ call[p].cmd.main = "out"
           => \/ ENABLED ReceiveStdout(p)
              \/ ENABLED ReadAllRead(p, "out")
              \/ ENABLED ReadAllReturn(p, "out")
      /\ call[p].cmd.main = "err"
           => \/ ENABLED ReceiveStderr(p)
              \/ ENABLED ReadAllRead(p, "err")
              \/ ENABLED ReadAllReturn(p, "err")

\* a child wrote more than a pipe holds to both streams, exited, and the
\* call returned with all of it
LargeOutputReturned ==
    \E p \in Procs :
      /\ pc[p] = "done"
      /\ call[p].cmd.main = "returned"
      /\ call[p].cmd.child = "exited"
      /\ \A s \in Streams : Len(call[p].cmd.written[s]) > PipeCap
      /\ call[p].result.Status = "completed"
      /\ call[p].result.ConsoleOut = <<"hi", "ho", "">>
      /\ call[p].result.ErrorOut = <<"e1e2">>

\* C35: when the child has exited by itself and startCommandExecution has
\* returned, ConsoleOut is everything the child wrote to stdout and
\* ErrorOut begins with everything it wrote to stderr, however the readers
\* and cmd.Wait interleaved.
OutputCapturedWhole ==
    \A p \in Procs :
      ( /\ call[p].cmd.main = "returned"
        /\ call[p].cmd.child = "exited"
        /\ call[p].cmd.ctx = "live" )
      => /\ call[p].result.ConsoleOut = call[p].cmd.written["out"] \o <<"">>
         /\ call[p].result.ErrorOut[1] = Concat(call[p].cmd.written["err"])

\* C36: on every return of startCommandExecution after the child was
\* started, no reader goroutine is left blocked in the send of what it
\* captured.
ReadersNotLeftSending ==
    \A p \in Procs :
      call[p].cmd.main = "returned" =>
        \A s \in Streams : call[p].cmd.reader[s] # "sending"

====
